---- MODULE Spec2Model ----
(***************************************************************************)
(* A model of blacky (src/blacky/blacky.py): the create-pr pipeline of     *)
(* main / handle_create_pr and the helpers it calls.                       *)
(*                                                                         *)
(* Python strings are sequences of one-character strings, so that strip,   *)
(* lower, join, slicing, len and string order are computed, not assumed.   *)
(* Python's None is the one-element tuple None, which no string equals.    *)
(***************************************************************************)
EXTENDS Integers, Sequences, FiniteSets, TLC

VARIABLES
    pc,             \* position in main / handle_create_pr
    argv,           \* the command line given to main
    doc,            \* blacky.conf.json as found in the working directory
    config,         \* load_config_file's return value
    missing_keys,   \* the keys load_config_file reported on stderr
    git_head,       \* what `git rev-parse --abbrev-ref HEAD` answers
    rx,             \* how re.compile / pattern.search behave for prTitleRegex
    current_branch, \* handle_create_pr's current_branch
    title,          \* handle_create_pr's title
    stdin,          \* the lines still to be read from standard input
    read,           \* the lines input() has returned so far
    lines,          \* ask_multiline_markdown's local list
    prompts,        \* how often ask_change_type printed its re-prompt
    description,    \* handle_create_pr's description
    change_type,    \* handle_create_pr's change_type
    git_status,     \* what `git status --porcelain` answers
    fs,             \* the working directory: manifests and .changeset
    changed_packages, \* create_and_edit_changeset's changed_packages
    changeset_path, \* create_and_edit_changeset's return value
    invoked,        \* the commands run through run_command and how each ended
    displayed,      \* the command create_azure_pr printed in a dry run
    raised,         \* the exception that left main, or None
    exit_code       \* the process exit status, -1 while the process runs

vars == <<pc, argv, doc, config, missing_keys, git_head, rx, current_branch,
          title, stdin, read, lines, prompts, description, change_type,
          git_status, fs, changed_packages, changeset_path, invoked, displayed, raised, exit_code>>

None == <<"None">>

\* None where the value would otherwise be a BlackyConfig record
NoConfig == [none |-> TRUE]

-----------------------------------------------------------------------------
(* Python's str methods used by the program. *)

IsSpace(c) == c \in {" ", "\t", "\n"}

RECURSIVE lstrip(_)
lstrip(s) == IF s = <<>> THEN s
             ELSE IF IsSpace(Head(s)) THEN lstrip(Tail(s)) ELSE s

RECURSIVE rstrip(_)
rstrip(s) == IF s = <<>> THEN s
             ELSE IF IsSpace(s[Len(s)]) THEN rstrip(SubSeq(s, 1, Len(s) - 1))
             ELSE s

\* str.strip()
strip(s) == rstrip(lstrip(s))

\* str.lower(), one character
lower_char(c) ==
    CASE c = "A" -> "a" [] c = "C" -> "c" [] c = "H" -> "h" [] c = "I" -> "i"
      [] c = "J" -> "j" [] c = "M" -> "m" [] c = "N" -> "n" [] c = "O" -> "o"
      [] c = "P" -> "p" [] c = "R" -> "r" [] c = "T" -> "t" [] OTHER -> c

\* str.lower()
lower(s) == [i \in 1..Len(s) |-> lower_char(s[i])]

\* sep.join(parts)
RECURSIVE join(_, _)
join(sep, parts) ==
    IF parts = <<>> THEN <<>>
    ELSE IF Len(parts) = 1 THEN parts[1]
    ELSE parts[1] \o sep \o join(sep, Tail(parts))

\* Python truthiness of an Optional[str]: None and "" are falsy.
Truthy(x) == x # None /\ x # <<>>

-----------------------------------------------------------------------------
(* load_config_file *)

\* The four top-level keys and the three keys of "azure", in the order the
\* loader tests them.
RequiredKeys ==
    << "prTitleRegex", "targetBranch", "projectPackagePrefix", "packageManager",
       "azure.organizationUrl", "azure.project", "azure.repository" >>

TopKeys == {"prTitleRegex", "packageManager", "targetBranch", "projectPackagePrefix"}
AzureKeys == {"organizationUrl", "project", "repository"}

\* json.load's result for a member: Absent when the key is not there (dict.get
\* then gives None), None for JSON null, or a string.
Absent == <<"Absent">>

\* dict.get(key) on a parsed JSON object
dict_get(obj, key) == IF obj[key] = Absent THEN None ELSE obj[key]

\* A document is [exists, parses, kind, top, azure_kind, azure]:
\*   kind       "object", or "other" for a list, string, number or null document
\*   azure_kind "absent", "null" (null or another falsy value that is no
\*              object, which `or {}` replaces), "object", or "other" for a
\*              truthy value that is no object
\* The required keys hold strings or null; other JSON types are not modelled.
load_config_file(d) ==
    IF ~d.exists THEN
        [ret |-> NoConfig, reported |-> <<>>, raised |-> None]
    ELSE IF ~d.parses THEN
        [ret |-> NoConfig, reported |-> <<>>, raised |-> None]
    ELSE IF d.kind # "object" THEN
        \* raw.get on a value that is no dict
        [ret |-> NoConfig, reported |-> <<>>, raised |-> <<"AttributeError">>]
    ELSE IF d.azure_kind = "other" THEN
        \* azure_raw.get on a truthy value that is no dict
        [ret |-> NoConfig, reported |-> <<>>, raised |-> <<"AttributeError">>]
    ELSE
        LET pr_title_regex == dict_get(d.top, "prTitleRegex")
            package_manager == dict_get(d.top, "packageManager")
            target_branch == dict_get(d.top, "targetBranch")
            project_pkg_prefix == dict_get(d.top, "projectPackagePrefix")
            \* raw.get("azure") or {}
            azure_raw == IF d.azure_kind = "object" THEN d.azure
                         ELSE [k \in AzureKeys |-> Absent]
            org_url == dict_get(azure_raw, "organizationUrl")
            project == dict_get(azure_raw, "project")
            repo == dict_get(azure_raw, "repository")
            value == << pr_title_regex, target_branch, project_pkg_prefix,
                        package_manager, org_url, project, repo >>
            missing == SelectSeq(<<1, 2, 3, 4, 5, 6, 7>>, LAMBDA i : ~Truthy(value[i]))
            keys == [i \in 1..Len(missing) |-> RequiredKeys[missing[i]]]
        IN  IF keys # <<>> THEN
                [ret |-> NoConfig, reported |-> keys, raised |-> None]
            ELSE
                [ret |-> [pr_title_regex |-> pr_title_regex,
                          package_manager |-> package_manager,
                          target_branch |-> target_branch,
                          project_pkg_prefix |-> project_pkg_prefix,
                          azure |-> [organization_url |-> org_url,
                                     project |-> project,
                                     repository |-> repo]],
                 reported |-> <<>>, raised |-> None]

-----------------------------------------------------------------------------
(* build_pr_title_from_branch *)

\* The substrings of s: what a capture group can hold after a search in s.
Substrings(s) == {SubSeq(s, i, j) : i \in 1..(Len(s) + 1), j \in 0..Len(s)}

\* The regex engine's answer for one pattern and one branch is a record r:
\*   compiles   re.compile(regex_pattern) raised no re.error
\*   matched    pattern.search(branch) gave a match object
\*   groups     m.groups(): per capture group its text, or None when the
\*              group took no part in the match
\*   title_idx  the number of the group named "title", 0 when there is none
build_pr_title_from_branch(branch, r) ==
    IF ~r.compiles THEN
        [ret |-> branch, warned |-> TRUE, raised |-> None]
    ELSE IF ~r.matched THEN
        [ret |-> branch, warned |-> TRUE, raised |-> None]
    ELSE IF r.title_idx # 0 /\ Truthy(r.groups[r.title_idx]) THEN
        [ret |-> strip(r.groups[r.title_idx]), warned |-> FALSE, raised |-> None]
    ELSE IF r.groups # <<>> THEN
        IF r.groups[1] = None THEN
            \* m.group(1).strip() on None
            [ret |-> None, warned |-> FALSE, raised |-> <<"AttributeError">>]
        ELSE
            [ret |-> strip(r.groups[1]), warned |-> FALSE, raised |-> None]
    ELSE
        [ret |-> branch, warned |-> FALSE, raised |-> None]

-----------------------------------------------------------------------------
(* build_arg_parser / parse_args *)

tok_create_pr == <<"c", "r", "e", "a", "t", "e", "-", "p", "r">>
tok_dry_run == <<"-", "-", "d", "r", "y", "-", "r", "u", "n">>
tok_help == <<"-", "-", "h", "e", "l", "p">>
tok_h == <<"-", "h">>
tok_dashdash == <<"-", "-">>
tok_draft == <<"-", "-", "d", "r", "a", "f", "t">>

\* What parse_args does: it leaves through SystemExit(exit), or returns a
\* namespace; has_func says whether set_defaults(func=...) applied.
ArgExit(code) ==
    [exits |-> TRUE, code |-> code, has_func |-> FALSE, dry_run |-> FALSE,
     az_args |-> <<>>]
Namespace(dry, rest) ==
    [exits |-> FALSE, code |-> 0, has_func |-> TRUE, dry_run |-> dry,
     az_args |-> rest]

\* The create-pr subparser: --dry-run (store_true), -h, and az_args, which
\* as argparse.REMAINDER takes every token from the first positional on.
RECURSIVE parse_create_pr(_, _)
parse_create_pr(rest, dry) ==
    IF rest = <<>> THEN Namespace(dry, <<>>)
    ELSE IF rest[1] = tok_dry_run THEN parse_create_pr(Tail(rest), TRUE)
    ELSE IF rest[1] \in {tok_h, tok_help} THEN ArgExit(0)
    ELSE IF rest[1] = tok_dashdash THEN Namespace(dry, rest)
    ELSE IF Head(rest[1]) = "-" THEN ArgExit(2)
    ELSE Namespace(dry, rest)

\* parser.parse_args(argv) with add_subparsers(dest="command", required=True):
\* a missing or unknown subcommand is parser.error, which exits with status 2.
parse_args(a) ==
    IF a = <<>> THEN ArgExit(2)
    ELSE IF a[1] \in {tok_h, tok_help} THEN ArgExit(0)
    ELSE IF a[1] # tok_create_pr THEN ArgExit(2)
    ELSE parse_create_pr(Tail(a), FALSE)

-----------------------------------------------------------------------------
(* The external commands *)

tok_az == <<"a", "z">>
tok_repos == <<"r", "e", "p", "o", "s">>
tok_pr == <<"p", "r">>
tok_create == <<"c", "r", "e", "a", "t", "e">>
tok_organization == <<"-", "-", "o", "r", "g", "a", "n", "i", "z", "a", "t", "i", "o", "n">>
tok_project == <<"-", "-", "p", "r", "o", "j", "e", "c", "t">>
tok_repository == <<"-", "-", "r", "e", "p", "o", "s", "i", "t", "o", "r", "y">>
tok_source_branch == <<"-", "-", "s", "o", "u", "r", "c", "e", "-", "b", "r", "a", "n", "c", "h">>
tok_target_branch == <<"-", "-", "t", "a", "r", "g", "e", "t", "-", "b", "r", "a", "n", "c", "h">>
tok_title == <<"-", "-", "t", "i", "t", "l", "e">>
tok_description == <<"-", "-", "d", "e", "s", "c", "r", "i", "p", "t", "i", "o", "n">>
tok_changeset == <<"c", "h", "a", "n", "g", "e", "s", "e", "t">>
tok_empty == <<"-", "-", "e", "m", "p", "t", "y">>
tok_install == <<"i", "n", "s", "t", "a", "l", "l">>
tok_run == <<"r", "u", "n">>
tok_build_all == <<"b", "u", "i", "l", "d", ":", "a", "l", "l">>

\* How subprocess.run(cmd, check=True) can end: exit status zero, a nonzero
\* status (CalledProcessError), or no such executable (FileNotFoundError,
\* which no caller catches).
Outcomes == {"ok", "nonzero", "notfound"}

\* run_command(cmd): the record of one subprocess.run
run_command(cmd, out) == [cmd |-> cmd, out |-> out]

changeset_cmd(package_manager) == <<package_manager, tok_changeset, tok_empty>>
install_cmd(package_manager) == <<package_manager, tok_install>>
build_cmd(package_manager) == <<package_manager, tok_run, tok_build_all>>

\* create_azure_pr's cmd = base_cmd + extra_az_args
azure_pr_cmd(org_url, project, repo, source, target, pr_title, body, extra) ==
    << tok_az, tok_repos, tok_pr, tok_create,
       tok_organization, org_url,
       tok_project, project,
       tok_repository, repo,
       tok_source_branch, source,
       tok_target_branch, target,
       tok_title, pr_title,
       tok_description, body >> \o extra

\* The dry run's display form: f"'{c}'" if ' ' in c else c, joined by blanks
display_token(c) ==
    IF \E i \in 1..Len(c) : c[i] = " " THEN <<"'">> \o c \o <<"'">> ELSE c

display_cmd(cmd) ==
    <<" ", " ">> \o join(<<" ">>, [i \in 1..Len(cmd) |-> display_token(cmd[i])])

IsAzurePrCmd(cmd) == Len(cmd) >= 4 /\ SubSeq(cmd, 1, 4) = <<tok_az, tok_repos, tok_pr, tok_create>>
IsInstallCmd(cmd) == Len(cmd) = 2 /\ cmd[2] = tok_install
IsBuildCmd(cmd) == Len(cmd) = 3 /\ cmd[2] = tok_run /\ cmd[3] = tok_build_all
IsChangesetCmd(cmd) == Len(cmd) = 3 /\ cmd[2] = tok_changeset /\ cmd[3] = tok_empty

-----------------------------------------------------------------------------
(* pathlib.Path, as far as the program uses it *)

\* s.split(sep) for a one-character separator
RECURSIVE split(_, _)
split(s, sep) ==
    IF \A i \in 1..Len(s) : s[i] # sep THEN <<s>>
    ELSE LET k == CHOOSE i \in 1..Len(s) :
                      s[i] = sep /\ \A j \in 1..(i - 1) : s[j] # sep
         IN  <<SubSeq(s, 1, k - 1)>> \o split(SubSeq(s, k + 1, Len(s)), sep)

\* Path(file).parts of a relative path: empty and "." components are dropped
path_parts(file) ==
    SelectSeq(split(file, "/"), LAMBDA part : part # <<>> /\ part # <<".">>)

\* Path.as_posix(): the path without components is "."
as_posix(parts) == IF parts = <<>> THEN <<".">> ELSE join(<<"/">>, parts)

\* Path.name: the final component, "" for "."
path_name(parts) == IF parts = <<>> THEN <<>> ELSE parts[Len(parts)]

\* [p] + list(p.parents): p, then each ancestor up to "."
with_parents(parts) == [i \in 1..(Len(parts) + 1) |-> SubSeq(parts, 1, Len(parts) + 1 - i)]

\* ord() of the characters that occur in paths
ord(c) ==
    CASE c = "-" -> 45 [] c = "." -> 46 [] c = "/" -> 47
      [] c = "a" -> 97 [] c = "b" -> 98 [] c = "k" -> 107
      [] c = "p" -> 112 [] c = "x" -> 120

\* s < t for Python strings
RECURSIVE str_less(_, _)
str_less(s, t) ==
    IF t = <<>> THEN FALSE
    ELSE IF s = <<>> THEN TRUE
    ELSE IF Head(s) = Head(t) THEN str_less(Tail(s), Tail(t))
    ELSE ord(Head(s)) < ord(Head(t))

\* sorted(S) for a set of strings
RECURSIVE sorted(_)
sorted(S) ==
    IF S = {} THEN <<>>
    ELSE LET least == CHOOSE s \in S : \A t \in S \ {s} : str_less(s, t)
         IN  <<least>> \o sorted(S \ {least})

-----------------------------------------------------------------------------
(* get_changed_packages *)

\* The first of p and its ancestors that holds a package.json, as a set of
\* at most one as_posix() string (the inner loop with its break).
\* manifests is the set of directories (as parts) that hold a package.json.
first_manifest_dir(file, manifests) ==
    LET cand == with_parents(path_parts(file))
        hits == {i \in 1..Len(cand) : cand[i] \in manifests}
    IN  IF hits = {} THEN {}
        ELSE {as_posix(cand[CHOOSE i \in hits : \A j \in hits : i <= j])}

\* The filter of the return statement: len(pkg) > 1
keep_package(pkg) == Len(pkg) > 1

\* status is [rc, stdout]: how `git status --porcelain` ended and the lines
\* of its output (result.stdout.splitlines()).
get_changed_packages(status, manifests) ==
    IF status.rc # "ok" THEN <<>>
    ELSE
        LET out == SelectSeq(status.stdout, LAMBDA line : strip(line) # <<>>)
            \* line[3:]
            changed_files == [i \in 1..Len(out) |-> SubSeq(out[i], 4, Len(out[i]))]
            packages == UNION {first_manifest_dir(changed_files[i], manifests) :
                               i \in 1..Len(changed_files)}
        IN  sorted({pkg \in packages : keep_package(pkg)})

-----------------------------------------------------------------------------
(* find_latest_changeset_file and the changeset file *)

\* glob("*.md"): the name ends in ".md"
is_md(name) ==
    Len(name) >= 3 /\ SubSeq(name, Len(name) - 2, Len(name)) = <<".", "m", "d">>

\* The .changeset directory is [exists, entries]; an entry is
\* [name, is_file, mtime, content].
\* candidates[0] after sorting by st_mtime, newest first: an entry no other
\* candidate is newer than (which one, among equally new ones, is the order
\* glob happened to list them in). The set is empty when the result is None.
find_latest_changeset_file(changesets_dir) ==
    IF ~changesets_dir.exists THEN {}
    ELSE LET candidates == {e \in changesets_dir.entries : is_md(e.name) /\ e.is_file}
         IN  {e \in candidates : \A o \in candidates : o.mtime <= e.mtime}

\* front_matter_lines
front_matter_lines(pkgs, project_pkg_prefix, change_type_) ==
    <<<<"-", "-", "-">>>>
    \o [i \in 1..Len(pkgs) |->
            <<"\"">> \o project_pkg_prefix \o <<"/">>
            \o path_name(path_parts(pkgs[i]))
            \o <<"\"", ":", " ">> \o change_type_]
    \o <<<<"-", "-", "-">>, <<>>>>

\* What the two writes leave in the file opened with mode "w"
changeset_content(pkgs, project_pkg_prefix, change_type_, description_md) ==
    join(<<"\n">>, front_matter_lines(pkgs, project_pkg_prefix, change_type_))
    \o (IF description_md # <<>> THEN strip(description_md) \o <<"\n">> ELSE <<>>)

-----------------------------------------------------------------------------
(* get_current_branch *)

tok_HEAD == <<"H", "E", "A", "D">>

\* head is [rc, stdout] of `git rev-parse --abbrev-ref HEAD`
get_current_branch(head) ==
    IF head.rc = "notfound" THEN [ret |-> None, raised |-> <<"FileNotFoundError">>]
    ELSE IF head.rc = "nonzero" THEN [ret |-> None, raised |-> None]
    ELSE LET branch == strip(head.stdout)
         IN  IF branch = tok_HEAD THEN [ret |-> None, raised |-> None]
             ELSE [ret |-> branch, raised |-> None]

-----------------------------------------------------------------------------
(* main and handle_create_pr, stage by stage *)

\* args = parser.parse_args(argv)
Args == parse_args(argv)

\* An exception nobody catches leaves main: the interpreter prints the
\* traceback and the process ends with status 1.
Crash(e) == pc' = "exit" /\ raised' = e /\ exit_code' = 1

\* main (or handle_create_pr inside it) returns code to sys.exit
Return(code) == pc' = "exit" /\ raised' = None /\ exit_code' = code

Goto(p) == pc' = p /\ UNCHANGED <<raised, exit_code>>

\* main up to the call of args.func
Main ==
    /\ pc = "main"
    /\ IF Args.exits THEN
           pc' = "exit" /\ raised' = <<"SystemExit">> /\ exit_code' = Args.code
       ELSE IF ~Args.has_func THEN
           Return(1)
       ELSE
           Goto("config")
    /\ UNCHANGED <<argv, doc, config, missing_keys, git_head, rx, current_branch,
                   title, stdin, read, lines, prompts, description, change_type,
                   git_status, fs, changed_packages, changeset_path, invoked,
                   displayed>>

\* config = load_config_file(...); if not config: return 1
LoadConfig ==
    /\ pc = "config"
    /\ LET r == load_config_file(doc)
       IN  IF r.raised # None THEN
               Crash(r.raised) /\ UNCHANGED <<config, missing_keys>>
           ELSE
               /\ config' = r.ret
               /\ missing_keys' = r.reported
               /\ IF r.ret = NoConfig THEN Return(1) ELSE Goto("git")
    /\ UNCHANGED <<argv, doc, git_head, rx, current_branch, title, stdin, read, lines,
                   prompts, description, change_type, git_status, fs,
                   changed_packages, changeset_path, invoked, displayed>>

\* current_branch = get_current_branch(); if not current_branch: return 1
GetBranch ==
    /\ pc = "git"
    /\ LET r == get_current_branch(git_head)
       IN  IF r.raised # None THEN
               Crash(r.raised) /\ UNCHANGED current_branch
           ELSE
               /\ current_branch' = r.ret
               /\ IF Truthy(r.ret) THEN Goto("title") ELSE Return(1)
    /\ UNCHANGED <<argv, doc, config, missing_keys, git_head, rx, title, stdin, read,
                   lines, prompts, description, change_type, git_status, fs,
                   changed_packages, changeset_path, invoked, displayed>>

\* title = build_pr_title_from_branch(current_branch, config.pr_title_regex)
BuildTitle ==
    /\ pc = "title"
    /\ LET r == build_pr_title_from_branch(current_branch, rx)
       IN  IF r.raised # None THEN
               Crash(r.raised) /\ UNCHANGED title
           ELSE
               title' = r.ret /\ Goto("ask_description")
    /\ UNCHANGED <<argv, doc, config, missing_keys, git_head, rx, current_branch,
                   stdin, read, lines, prompts, description, change_type, git_status,
                   fs, changed_packages, changeset_path, invoked, displayed>>

\* The end test without the strip: only the line "." itself ends the input
is_end_marker_exact(line) == line = <<".">>

\* The test that ends the description: line.strip() == "."
is_end_marker(line) == strip(line) = <<".">>

\* One turn of ask_multiline_markdown's loop: input() raises EOFError at the
\* end of the input, which the loop catches; the return follows the break.
AskMultilineMarkdown ==
    /\ pc = "ask_description"
    /\ IF stdin = <<>> \/ is_end_marker(Head(stdin)) THEN
           /\ description' = strip(join(<<"\n">>, lines))
           /\ lines' = lines
           /\ Goto("ask_change_type")
       ELSE
           /\ lines' = Append(lines, Head(stdin))
           /\ description' = description
           /\ Goto("ask_description")
    /\ stdin' = IF stdin = <<>> THEN stdin ELSE Tail(stdin)
    /\ read' = IF stdin = <<>> THEN read ELSE Append(read, Head(stdin))
    /\ UNCHANGED <<argv, doc, config, missing_keys, git_head, rx, current_branch,
                   title, prompts, change_type, git_status, fs, changed_packages,
                   changeset_path, invoked, displayed>>

valid == {<<"p", "a", "t", "c", "h">>, <<"m", "i", "n", "o", "r">>,
          <<"m", "a", "j", "o", "r">>}

\* One turn of ask_change_type's loop: here nothing catches input()'s EOFError.
AskChangeType ==
    /\ pc = "ask_change_type"
    /\ IF stdin = <<>> THEN
           Crash(<<"EOFError">>) /\ UNCHANGED <<stdin, read, change_type, prompts>>
       ELSE
           LET answer == lower(strip(Head(stdin)))
           IN  /\ stdin' = Tail(stdin)
               /\ read' = Append(read, Head(stdin))
               /\ IF answer \in valid THEN
                      change_type' = answer /\ prompts' = prompts /\ Goto("changeset")
                  ELSE
                      change_type' = change_type /\ prompts' = prompts + 1
                      /\ Goto("ask_change_type")
    /\ UNCHANGED <<argv, doc, config, missing_keys, git_head, rx, current_branch,
                   title, lines, description, git_status, fs, changed_packages,
                   changeset_path, invoked, displayed>>

-----------------------------------------------------------------------------
(* create_and_edit_changeset, run_local_build, create_azure_pr *)

\* The modification time a file written now gets: later than every entry's.
RECURSIVE newest(_)
newest(entries) ==
    IF entries = {} THEN 0
    ELSE LET e == CHOOSE x \in entries : TRUE
             rest == newest(entries \ {e})
         IN  IF e.mtime > rest THEN e.mtime ELSE rest

now(dir) == newest(dir.entries) + 1

\* What `<pm> changeset --empty` leaves behind when it creates its file: a new
\* .md file of a fresh name holding an empty front matter.
scaffold_name == <<"n", "e", "w", ".", "m", "d">>
scaffold_content == <<"-", "-", "-", "\n", "-", "-", "-", "\n", "\n">>

scaffold(dir) ==
    [exists |-> TRUE,
     entries |-> dir.entries \cup
         {[name |-> scaffold_name, is_file |-> TRUE, mtime |-> now(dir),
           content |-> scaffold_content]}]

\* latest.open("w") and the writes: the whole content is replaced
write_file(dir, entry, content) ==
    [dir EXCEPT !.entries =
        (dir.entries \ {entry}) \cup
        {[entry EXCEPT !.content = content, !.mtime = now(dir)]}]

\* create_and_edit_changeset, and handle_create_pr's test of its result
CreateAndEditChangeset ==
    /\ pc = "changeset"
    /\ \E out \in Outcomes, creates \in BOOLEAN :
        LET dir1 == IF out # "notfound" /\ creates THEN scaffold(fs.changeset)
                    ELSE fs.changeset
            found == find_latest_changeset_file(dir1)
        IN  /\ invoked' = Append(invoked, run_command(changeset_cmd(config.package_manager), out))
            /\ IF out = "notfound" THEN
                   /\ Crash(<<"FileNotFoundError">>)
                   /\ UNCHANGED <<fs, changed_packages, changeset_path>>
               ELSE IF out = "nonzero" \/ found = {} THEN
                   /\ fs' = [fs EXCEPT !.changeset = dir1]
                   /\ UNCHANGED <<changed_packages, changeset_path>>
                   /\ Return(1)
               ELSE
                   \E latest \in found :
                       LET pkgs == get_changed_packages(git_status, fs.manifests)
                       IN  /\ changed_packages' = pkgs
                           /\ fs' = [fs EXCEPT !.changeset =
                                  write_file(dir1, latest,
                                      changeset_content(pkgs, config.project_pkg_prefix,
                                                        change_type, description))]
                           /\ changeset_path' = latest.name
                           /\ Goto("install")
    /\ UNCHANGED <<argv, doc, config, missing_keys, git_head, rx, current_branch,
                   title, stdin, read, lines, prompts, description, change_type,
                   git_status, displayed>>

\* run_local_build: `<pm> install`
Install ==
    /\ pc = "install"
    /\ \E out \in Outcomes :
        /\ invoked' = Append(invoked, run_command(install_cmd(config.package_manager), out))
        /\ IF out = "notfound" THEN Crash(<<"FileNotFoundError">>)
           ELSE IF out = "nonzero" THEN Return(1)
           ELSE Goto("build")
    /\ UNCHANGED <<argv, doc, config, missing_keys, git_head, rx, current_branch,
                   title, stdin, read, lines, prompts, description, change_type,
                   git_status, fs, changed_packages, changeset_path, displayed>>

\* Build with the except branch's return False lost: a failed build goes on
Build_ignoring_failure ==
    /\ pc = "build"
    /\ \E out \in Outcomes :
        /\ invoked' = Append(invoked, run_command(build_cmd(config.package_manager), out))
        /\ IF out = "notfound" THEN Crash(<<"FileNotFoundError">>)
           ELSE Goto("pr")
    /\ UNCHANGED <<argv, doc, config, missing_keys, git_head, rx, current_branch,
                   title, stdin, read, lines, prompts, description, change_type,
                   git_status, fs, changed_packages, changeset_path, displayed>>

\* run_local_build: `<pm> run build:all`, and handle_create_pr's test
Build ==
    /\ pc = "build"
    /\ \E out \in Outcomes :
        /\ invoked' = Append(invoked, run_command(build_cmd(config.package_manager), out))
        /\ IF out = "notfound" THEN Crash(<<"FileNotFoundError">>)
           ELSE IF out = "nonzero" THEN Return(1)
           ELSE Goto("pr")
    /\ UNCHANGED <<argv, doc, config, missing_keys, git_head, rx, current_branch,
                   title, stdin, read, lines, prompts, description, change_type,
                   git_status, fs, changed_packages, changeset_path, displayed>>

auto_description ==
    <<"A", "u", "t", "o", "m", "a", "t", "i", "c", "a", "l", "l", "y", " ",
      "c", "r", "e", "a", "t", "e", "d", " ", "b", "y", " ", "b", "l", "a",
      "c", "k", "y", " ", "f", "o", "r", " ", "b", "r", "a", "n", "c", "h", " ">>

\* The cmd create_azure_pr builds from handle_create_pr's arguments
pr_cmd ==
    azure_pr_cmd(config.azure.organization_url, config.azure.project,
                 config.azure.repository, current_branch, config.target_branch,
                 title,
                 IF description # <<>> THEN description
                 ELSE auto_description \o current_branch,
                 Args.az_args)

\* create_azure_pr with the dry_run test lost: the command always runs
create_azure_pr_always_runs(dry_run, out) ==
    IF out = "notfound" THEN
        [runs |-> TRUE, ret |-> FALSE, raised |-> <<"FileNotFoundError">>]
    ELSE [runs |-> TRUE, ret |-> (out = "ok"), raised |-> None]

\* What create_azure_pr does with dry_run and the command's outcome:
\* [runs, ret, raised]
create_azure_pr(dry_run, out) ==
    IF dry_run THEN [runs |-> FALSE, ret |-> TRUE, raised |-> None]
    ELSE IF out = "notfound" THEN
        [runs |-> TRUE, ret |-> FALSE, raised |-> <<"FileNotFoundError">>]
    ELSE [runs |-> TRUE, ret |-> (out = "ok"), raised |-> None]

\* create_azure_pr, and handle_create_pr's return 0 if success else 1
CreateAzurePr ==
    /\ pc = "pr"
    /\ \E out \in Outcomes :
        LET r == create_azure_pr(Args.dry_run, out)
        IN  /\ invoked' = IF r.runs THEN Append(invoked, run_command(pr_cmd, out)) ELSE invoked
            /\ displayed' = IF r.runs THEN displayed ELSE display_cmd(pr_cmd)
            /\ IF r.raised # None THEN Crash(r.raised)
               ELSE Return(IF r.ret THEN 0 ELSE 1)
    /\ UNCHANGED <<argv, doc, config, missing_keys, git_head, rx, current_branch,
                   title, stdin, read, lines, prompts, description, change_type,
                   git_status, fs, changed_packages, changeset_path>>

-----------------------------------------------------------------------------
(* The inputs *)

\* The text a key holds when it holds a non-empty string
TextOf(key) ==
    CASE key = "prTitleRegex" -> <<"^", "(", ".", ")">>
      [] key = "packageManager" -> <<"p", "n", "p", "m">>
      [] key = "targetBranch" -> <<"m", "a", "i", "n">>
      [] key = "projectPackagePrefix" -> <<"@", "o">>
      [] key = "organizationUrl" -> <<"u", "r", "l">>
      [] key = "project" -> <<"p", "r", "j">>
      [] key = "repository" -> <<"r", "e", "p">>

\* What a key of a parsed document can hold: nothing (the key is not there),
\* null, the empty string, or its text.
LeafValues(key) == {Absent, None, <<>>, TextOf(key)}

NoAzure == [k \in AzureKeys |-> Absent]
NoTop == [k \in TopKeys |-> Absent]

ObjectDoc(top, azure_kind, azure) ==
    [exists |-> TRUE, parses |-> TRUE, kind |-> "object", top |-> top,
     azure_kind |-> azure_kind, azure |-> azure]

\* Every document of the modelled shapes
Docs ==
    { [exists |-> FALSE, parses |-> FALSE, kind |-> "other", top |-> NoTop,
       azure_kind |-> "absent", azure |-> NoAzure],
      [exists |-> TRUE, parses |-> FALSE, kind |-> "other", top |-> NoTop,
       azure_kind |-> "absent", azure |-> NoAzure],
      [exists |-> TRUE, parses |-> TRUE, kind |-> "other", top |-> NoTop,
       azure_kind |-> "absent", azure |-> NoAzure] }
    \cup { ObjectDoc(top, k, NoAzure) :
             top \in {t \in [TopKeys -> UNION {LeafValues(x) : x \in TopKeys}] :
                         \A x \in TopKeys : t[x] \in LeafValues(x)},
             k \in {"absent", "null", "other"} }
    \cup { ObjectDoc(top, "object", az) :
             top \in {t \in [TopKeys -> UNION {LeafValues(x) : x \in TopKeys}] :
                         \A x \in TopKeys : t[x] \in LeafValues(x)},
             az \in {t \in [AzureKeys -> UNION {LeafValues(x) : x \in AzureKeys}] :
                         \A x \in AzureKeys : t[x] \in LeafValues(x)} }

GoodTop == [k \in TopKeys |-> TextOf(k)]
GoodAzure == [k \in AzureKeys |-> TextOf(k)]
GoodDoc == ObjectDoc(GoodTop, "object", GoodAzure)
GoodConfig == load_config_file(GoodDoc).ret

\* The documents the whole pipeline is run on
PipelineDocs ==
    { GoodDoc,
      ObjectDoc([GoodTop EXCEPT !["targetBranch"] = <<>>], "object",
                [GoodAzure EXCEPT !["project"] = Absent]),
      ObjectDoc(GoodTop, "other", NoAzure),
      [exists |-> FALSE, parses |-> FALSE, kind |-> "other", top |-> NoTop,
       azure_kind |-> "absent", azure |-> NoAzure] }

\* The command lines the whole pipeline is run on
Argvs ==
    { <<>>,
      <<<<"f", "o", "o">>>>,
      <<tok_help>>,
      <<tok_create_pr>>,
      <<tok_create_pr, tok_dry_run>>,
      <<tok_create_pr, tok_draft>>,
      <<tok_create_pr, tok_dashdash, tok_draft>>,
      <<tok_create_pr, tok_dry_run, tok_dashdash, tok_draft>> }

\* The answers of `git rev-parse --abbrev-ref HEAD`
PipelineHeads ==
    { [rc |-> "ok", stdout |-> <<"f", "/", "a", "\n">>],
      [rc |-> "ok", stdout |-> <<"H", "E", "A", "D", "\n">>],
      [rc |-> "nonzero", stdout |-> <<>>],
      [rc |-> "notfound", stdout |-> <<>>] }

NoCompile == [compiles |-> FALSE, matched |-> FALSE, groups |-> <<>>, title_idx |-> 0]
NoMatch == [compiles |-> TRUE, matched |-> FALSE, groups |-> <<>>, title_idx |-> 0]
Match(groups, title_idx) ==
    [compiles |-> TRUE, matched |-> TRUE, groups |-> groups, title_idx |-> title_idx]

\* Every way a pattern of at most n groups can behave on branch
RxSet(branch, n) ==
    {NoCompile, NoMatch}
    \cup UNION { { Match(g, t) : g \in [1..k -> Substrings(branch) \cup {None}],
                                t \in 0..k } : k \in 0..n }

PipelineRx ==
    { NoCompile, NoMatch, Match(<<>>, 0), Match(<<<<"a">>>>, 1),
      Match(<<<<"f", "/">>, <<"a">>>>, 0), Match(<<None>>, 1) }

\* Standard input, line by line
L_dot == <<".">>
L_a == <<"a">>
L_minor == <<"m", "i", "n", "o", "r">>
L_Major == <<" ", "M", "A", "J", "O", "R", " ">>
L_foo == <<"f", "o", "o">>

PipelineStdins ==
    { <<>>,
      <<L_dot, L_minor>>,
      <<L_a, L_a, L_dot, L_foo, L_Major>>,
      <<L_a, <<" ", ".">>, <<"p", "a", "t", "c", "h">>>>,
      <<L_a, L_dot, L_foo>> }

\* `git status --porcelain`, and the package manifests of the working tree
StatusLine(path) == <<" ", "M", " ">> \o path

PipelineStatus ==
    { [rc |-> "nonzero", stdout |-> <<>>],
      [rc |-> "ok", stdout |-> << StatusLine(<<"p", "k", "/", "x">>),
                                 StatusLine(<<"a", "/", "b", "/", "x">>),
                                 StatusLine(<<"x">>) >>] }

PipelineManifests == { <<>>, <<<<"p", "k">>>>, <<<<"a">>>>, <<<<"a">>, <<"b">>>> }

OldEntry ==
    [name |-> <<"o", "l", "d", ".", "m", "d">>, is_file |-> TRUE, mtime |-> 1,
     content |-> <<"o", "l", "d", "\n">>]
ConfigEntry ==
    [name |-> <<"c", "o", "n", "f", "i", "g", ".", "j", "s", "o", "n">>,
     is_file |-> TRUE, mtime |-> 2, content |-> <<"{", "}">>]

PipelineChangesetDirs ==
    { [exists |-> FALSE, entries |-> {}],
      [exists |-> TRUE, entries |-> {ConfigEntry}],
      [exists |-> TRUE, entries |-> {ConfigEntry, OldEntry}] }

-----------------------------------------------------------------------------
(* The whole program: main from its first line to the process's exit *)

Init ==
    /\ pc = "main"
    /\ argv \in Argvs
    /\ doc \in PipelineDocs
    /\ config = NoConfig
    /\ missing_keys = <<>>
    /\ git_head \in PipelineHeads
    /\ rx \in PipelineRx
    /\ current_branch = None
    /\ title = None
    /\ stdin \in PipelineStdins
    /\ read = <<>>
    /\ lines = <<>>
    /\ prompts = 0
    /\ description = None
    /\ change_type = None
    /\ git_status \in PipelineStatus
    /\ fs \in {[manifests |-> PipelineManifests, changeset |-> d] :
                 d \in PipelineChangesetDirs}
    /\ changed_packages = <<>>
    /\ changeset_path = None
    /\ invoked = <<>>
    /\ displayed = None
    /\ raised = None
    /\ exit_code = -1

Next ==
    \/ Main
    \/ LoadConfig
    \/ GetBranch
    \/ BuildTitle
    \/ AskMultilineMarkdown
    \/ AskChangeType
    \/ CreateAndEditChangeset
    \/ Install
    \/ Build
    \/ CreateAzurePr

Spec == Init /\ [][Next]_vars

-----------------------------------------------------------------------------
(* create_azure_pr on its own: every combination of its arguments *)

PrStrings == { <<>>, <<"u">>, <<"n", "o", " ", "u", "r", "l">> }

PrConfigs ==
    { [GoodConfig EXCEPT !.azure = [organization_url |-> o, project |-> p,
                                    repository |-> r]] : o, p, r \in PrStrings }

InitAzurePr ==
    /\ pc = "pr"
    /\ argv \in {a \in Argvs : ~parse_args(a).exits}
    /\ doc = GoodDoc
    /\ config \in PrConfigs
    /\ missing_keys = <<>>
    /\ git_head = [rc |-> "ok", stdout |-> <<"f", "/", "a", "\n">>]
    /\ rx = NoMatch
    /\ current_branch \in {<<"f", "/", "a">>, <<"b", " ", "c">>}
    /\ title \in {<<>>, <<"t">>, <<"a", " ", "t">>}
    /\ stdin = <<>>
    /\ read = <<>>
    /\ lines = <<>>
    /\ prompts = 0
    /\ description \in {<<>>, <<"d">>, <<"d", " ", "e", "\n", "f">>}
    /\ change_type = L_minor
    /\ git_status = [rc |-> "nonzero", stdout |-> <<>>]
    /\ fs = [manifests |-> {}, changeset |-> [exists |-> FALSE, entries |-> {}]]
    /\ changed_packages = <<>>
    /\ changeset_path = scaffold_name
    /\ invoked = <<>>
    /\ displayed = None
    /\ raised = None
    /\ exit_code = -1

SpecAzurePr == InitAzurePr /\ [][CreateAzurePr]_vars

-----------------------------------------------------------------------------
(* The helpers on their own: handle_create_pr at one stage, the stage's     *)
(* inputs drawn from every value of the bounded sets                       *)

MaxBranchLen == 2
MaxGroups == 2
MaxLines == 3
MaxDepth == 2
MaxChanged == 2

\* The sequences over S of length at most n
Seqs(S, n) == UNION {[1..k -> S] : k \in 0..n}

NoStatus == [rc |-> "nonzero", stdout |-> <<>>]
NoChangesetDir == [exists |-> FALSE, entries |-> {}]

\* handle_create_pr at position p of `blacky create-pr`
StageInit(p, d, c, branch, r, t, input, desc, ct, status, files) ==
    /\ pc = p
    /\ argv = <<tok_create_pr>>
    /\ doc = d
    /\ config = c
    /\ missing_keys = <<>>
    /\ git_head = [rc |-> "ok", stdout |-> <<"f", "/", "a", "\n">>]
    /\ rx = r
    /\ current_branch = branch
    /\ title = t
    /\ stdin = input
    /\ read = <<>>
    /\ lines = <<>>
    /\ prompts = 0
    /\ description = desc
    /\ change_type = ct
    /\ git_status = status
    /\ fs = files
    /\ changed_packages = <<>>
    /\ changeset_path = None
    /\ invoked = <<>>
    /\ displayed = None
    /\ raised = None
    /\ exit_code = -1

\* load_config_file on every document
InitConfig ==
    \E d \in Docs :
        StageInit("config", d, NoConfig, None, NoMatch, None, <<>>, None, None,
                  NoStatus, [manifests |-> {}, changeset |-> NoChangesetDir])

SpecConfig == InitConfig /\ [][LoadConfig]_vars

\* build_pr_title_from_branch on every branch and every behaviour of a pattern
Branches == Seqs({"a", " "}, MaxBranchLen) \ {<<>>}

InitTitle ==
    \E branch \in Branches :
        \E r \in RxSet(branch, MaxGroups) :
            StageInit("title", GoodDoc, GoodConfig, branch, r, None, <<>>, None,
                      None, NoStatus,
                      [manifests |-> {}, changeset |-> NoChangesetDir])

SpecTitle == InitTitle /\ [][BuildTitle]_vars

\* The two prompts on every input
InputLines ==
    { L_dot, <<" ", ".">>, <<".", ".">>, L_a, <<>>, <<" ">>, L_minor, L_Major, L_foo }

InitDescription ==
    \E input \in Seqs(InputLines, MaxLines) :
        StageInit("ask_description", GoodDoc, GoodConfig, <<"f", "/", "a">>,
                  NoMatch, <<"f", "/", "a">>, input, None, None, NoStatus,
                  [manifests |-> {}, changeset |-> NoChangesetDir])

SpecDescription == InitDescription /\ [][AskMultilineMarkdown]_vars

InitChangeType ==
    \E input \in Seqs(InputLines, MaxLines) :
        StageInit("ask_change_type", GoodDoc, GoodConfig, <<"f", "/", "a">>,
                  NoMatch, <<"f", "/", "a">>, input, <<>>, None, NoStatus,
                  [manifests |-> {}, changeset |-> NoChangesetDir])

SpecChangeType == InitChangeType /\ [][AskChangeType]_vars

\* get_changed_packages on every working tree: directories named "a" and
\* "pk" nested to MaxDepth, a changed file "x" in some of them, a manifest
\* in any of them
DirNames == { <<"a">>, <<"p", "k">> }
Dirs == Seqs(DirNames, MaxDepth)
ChangedFiles == { as_posix(Append(d, <<"x">>)) : d \in Dirs }

Statuses ==
    { NoStatus }
    \cup { [rc |-> "ok", stdout |-> out] :
             out \in Seqs({StatusLine(f) : f \in ChangedFiles} \cup {<<>>}, MaxChanged) }

InitPackages ==
    \E status \in Statuses, manifests \in SUBSET Dirs :
        StageInit("changeset", GoodDoc, GoodConfig, <<"f", "/", "a">>, NoMatch,
                  <<"f", "/", "a">>, <<>>, <<"d">>, L_minor, status,
                  [manifests |-> manifests, changeset |-> NoChangesetDir])

SpecPackages == InitPackages /\ [][CreateAndEditChangeset]_vars

\* create_and_edit_changeset on every description, change type and
\* .changeset directory
Descriptions == { <<>>, <<"d">>, <<"d", " ", "e", "\n", "\n", "f">> }

NewerEntry ==
    [name |-> <<"R", ".", "m", "d">>, is_file |-> TRUE, mtime |-> 3,
     content |-> <<"r", "\n">>]
DirEntry ==
    [name |-> <<"z", ".", "m", "d">>, is_file |-> FALSE, mtime |-> 4,
     content |-> <<>>]

ChangesetDirs ==
    { NoChangesetDir }
    \cup { [exists |-> TRUE, entries |-> es] :
             es \in SUBSET {ConfigEntry, OldEntry, NewerEntry, DirEntry} }

InitChangeset ==
    \E desc \in Descriptions, ct \in valid, dir \in ChangesetDirs,
       status \in PipelineStatus :
        StageInit("changeset", GoodDoc, GoodConfig, <<"f", "/", "a">>, NoMatch,
                  <<"f", "/", "a">>, <<>>, desc, ct, status,
                  [manifests |-> PipelineManifests, changeset |-> dir])

SpecChangeset == InitChangeset /\ [][CreateAndEditChangeset]_vars

-----------------------------------------------------------------------------
(* Claims about the order of the stages and the exit status *)

\* --dry-run was given to create-pr
DryRun == ~Args.exits /\ Args.dry_run

\* The PR-submission stage was reached: the command ran or was displayed
PrStageReached ==
    displayed # None \/ \E i \in 1..Len(invoked) : IsAzurePrCmd(invoked[i].cmd)

\* C1: a stage's command is invoked only if every earlier stage succeeded.
\* The commands run in the order changeset, install, build, PR; a command
\* that did not exit zero is the last one run and the PR stage is not reached
\* after it (neither live nor as a dry run); and without a located changeset
\* file neither install, build nor the PR stage is entered.
C1_StagesInOrder ==
    /\ \A i \in 1..Len(invoked) :
        /\ i = 1 => IsChangesetCmd(invoked[i].cmd)
        /\ i = 2 => IsInstallCmd(invoked[i].cmd)
        /\ i = 3 => IsBuildCmd(invoked[i].cmd)
        /\ i = 4 => IsAzurePrCmd(invoked[i].cmd)
        /\ i <= 4
        /\ invoked[i].out # "ok" => i = Len(invoked) /\ pc = "exit" /\ displayed = None
    /\ changeset_path = None => Len(invoked) <= 1 /\ displayed = None
    /\ PrStageReached =>
        /\ Len(invoked) >= 3
        /\ \A i \in 1..3 : invoked[i].out = "ok"

\* C1's case: the build exited nonzero and the run ended without the PR stage
C1_Witness ==
    /\ pc = "exit"
    /\ Len(invoked) = 3
    /\ IsBuildCmd(invoked[3].cmd)
    /\ invoked[3].out = "nonzero"
    /\ ~PrStageReached

\* C2: create_azure_pr with dry_run=true never executes the az command and
\* returns success (handle_create_pr then returns 0), whatever its arguments.
C2_DryRunPrNeverExecutes ==
    (pc = "exit" /\ DryRun) =>
        /\ invoked = <<>>
        /\ raised = None
        /\ exit_code = 0
        /\ displayed = display_cmd(pr_cmd)

\* C2's case: a dry run returned with an empty organization URL
C2_Witness ==
    /\ pc = "exit"
    /\ DryRun
    /\ config.azure.organization_url = <<>>
    /\ Args.az_args # <<>>

\* Every stage of the pipeline succeeded
AllStagesSucceeded ==
    /\ raised = None
    /\ Len(invoked) >= 3
    /\ \A i \in 1..Len(invoked) : invoked[i].out = "ok"
    /\ PrStageReached

\* -h / --help: argparse prints the help and exits with status 0
HelpRequested == Args.exits /\ Args.code = 0

\* C3: the exit code is 0 exactly when every stage succeeded and 1 in every
\* other case, among them the case that no recognized subcommand is given.
C3_ExitCode ==
    (pc = "exit" /\ ~HelpRequested) =>
        exit_code = IF AllStagesSucceeded THEN 0 ELSE 1

-----------------------------------------------------------------------------
(* Claims about the helpers *)

\* The required keys that are absent or empty in document d
IsAbsentOrEmpty(v) == v \in {Absent, None, <<>>}

MissingSet(d) ==
    {RequiredKeys[i] : i \in {j \in 1..7 :
        IsAbsentOrEmpty(
            CASE j = 1 -> d.top["prTitleRegex"]
              [] j = 2 -> d.top["targetBranch"]
              [] j = 3 -> d.top["projectPackagePrefix"]
              [] j = 4 -> d.top["packageManager"]
              [] j = 5 -> d.azure["organizationUrl"]
              [] j = 6 -> d.azure["project"]
              [] j = 7 -> d.azure["repository"])}}

ReportedSet == {missing_keys[i] : i \in 1..Len(missing_keys)}

AllSevenNonEmpty(c) ==
    /\ Truthy(c.pr_title_regex) /\ Truthy(c.target_branch)
    /\ Truthy(c.project_pkg_prefix) /\ Truthy(c.package_manager)
    /\ Truthy(c.azure.organization_url) /\ Truthy(c.azure.project)
    /\ Truthy(c.azure.repository)

ReportsExactlyMissing ==
    /\ raised = None
    /\ ReportedSet = MissingSet(doc)
    /\ Len(missing_keys) = Cardinality(MissingSet(doc))
    /\ MissingSet(doc) # {} => config = NoConfig
    /\ MissingSet(doc) = {} => (config # NoConfig /\ AllSevenNonEmpty(config))

\* C4: for every parseable document, load_config_file reports exactly the
\* required keys that are absent or empty, returns no configuration when
\* there are any, and a configuration with seven non-empty fields otherwise.
C4_ReportsExactlyMissing ==
    (pc # "config" /\ doc.exists /\ doc.parses) => ReportsExactlyMissing

\* What does hold: the same for the documents that are a JSON object whose
\* "azure" member is absent, null or an object.
LoadConfigOnObjectDocuments ==
    (pc # "config" /\ doc.exists /\ doc.parses /\ doc.kind = "object"
     /\ doc.azure_kind # "other") => ReportsExactlyMissing

\* C5: build_pr_title_from_branch never raises; it returns a trimmed captured
\* group or the raw branch name, also when the first positional group took
\* no part in the match.
C5_TitleNeverRaises ==
    pc # "title" =>
        /\ raised = None
        /\ \/ title = current_branch
           \/ \E i \in 1..Len(rx.groups) :
                rx.groups[i] # None /\ title = strip(rx.groups[i])

\* The paths of the changed files in the status output
ChangedPaths(status) ==
    {path_parts(SubSeq(status.stdout[i], 4, Len(status.stdout[i]))) :
        i \in {j \in 1..Len(status.stdout) : strip(status.stdout[j]) # <<>>}}

\* The directories above a file, its own directory included
Ancestors(parts) == {SubSeq(parts, 1, k) : k \in 0..(Len(parts) - 1)}

\* The nearest ancestors that hold a manifest, over all changed files
NearestManifestDirs(status, manifests) ==
    {d \in manifests :
        \E f \in ChangedPaths(status) :
            /\ d \in Ancestors(f)
            /\ \A o \in Ancestors(f) \cap manifests : Len(o) <= Len(d)}

ExpectedPackages(status, manifests) ==
    {as_posix(d) : d \in NearestManifestDirs(status, manifests) \ {<<>>}}

\* C6: get_changed_packages returns, sorted ascending and without duplicates,
\* exactly the nearest manifest-holding ancestors of the changed files, the
\* root alone left out, whatever a directory is called.
C6_ChangedPackages ==
    (pc = "install" /\ git_status.rc = "ok") =>
        /\ \A i \in 1..(Len(changed_packages) - 1) :
              str_less(changed_packages[i], changed_packages[i + 1])
        /\ {changed_packages[i] : i \in 1..Len(changed_packages)}
              = ExpectedPackages(git_status, fs.manifests)

\* The text after the last "/" of a path
RECURSIVE LastSegment(_)
LastSegment(path) ==
    IF \A i \in 1..Len(path) : path[i] # "/" THEN path
    ELSE LastSegment(Tail(path))

\* Each line followed by a newline
RECURSIVE Terminated(_)
Terminated(ls) ==
    IF ls = <<>> THEN <<>> ELSE ls[1] \o <<"\n">> \o Terminated(Tail(ls))

\* The content C7 describes: "---", one line per package, "---", a blank
\* line, then the trimmed description and a newline if there is one.
ClaimedContent ==
    Terminated(
        <<<<"-", "-", "-">>>>
        \o [i \in 1..Len(changed_packages) |->
               <<"\"">> \o config.project_pkg_prefix \o <<"/">>
               \o LastSegment(changed_packages[i]) \o <<"\"", ":", " ">>
               \o change_type]
        \o <<<<"-", "-", "-">>, <<>>>>)
    \o (IF description # <<>> THEN strip(description) \o <<"\n">> ELSE <<>>)

\* C7: after a successful create_and_edit_changeset the located file holds
\* exactly the content C7 describes, the blank line after the closing "---"
\* included.
C7_ChangesetContent ==
    pc = "install" =>
        \E e \in fs.changeset.entries :
            e.name = changeset_path /\ e.content = ClaimedContent

Accepted(line) == lower(strip(line)) \in valid

\* C8: ask_change_type ends only by returning one of the three values: the
\* first accepted line, after one re-prompt per rejected line before it.
C8_ChangeTypeOnlyReturns ==
    pc # "ask_change_type" =>
        /\ raised = None
        /\ read # <<>>
        /\ change_type \in valid
        /\ change_type = lower(strip(read[Len(read)]))
        /\ \A i \in 1..(Len(read) - 1) : ~Accepted(read[i])
        /\ prompts = Len(read) - 1

\* The lines of input before the first line whose number is in ends
Before(input, ends) ==
    IF ends = {} THEN input
    ELSE SubSeq(input, 1, (CHOOSE i \in ends : \A j \in ends : i <= j) - 1)

\* The whole input of the run: what was read and what is left
Input == read \o stdin

\* C9 as claimed: the description is the trimmed newline-join of the lines
\* before the first line that is exactly ".", or of all lines.
C9_DescriptionExactDot ==
    pc # "ask_description" =>
        description = strip(join(<<"\n">>,
            Before(Input, {i \in 1..Len(Input) : Input[i] = <<".">>})))

\* C9 as amended: the input ends at the first line that is "." once its
\* surrounding whitespace is trimmed; only that line and the lines before it
\* are read.
C9_DescriptionTrimmedDot ==
    pc # "ask_description" =>
        LET ends == {i \in 1..Len(Input) : strip(Input[i]) = <<".">>}
            body == Before(Input, ends)
        IN  /\ description = strip(join(<<"\n">>, body))
            /\ lines = body
            /\ Len(read) = IF ends = {} THEN Len(Input) ELSE Len(body) + 1
            /\ raised = None

\* C9's case: a line " ." ended the input after other lines, with more to come
C9_Witness ==
    /\ pc = "ask_change_type"
    /\ Len(read) >= 2
    /\ read[Len(read)] = <<" ", ".">>
    /\ description # <<>>
    /\ stdin # <<>>

-----------------------------------------------------------------------------
(* A claim about the scaffold command creating nothing *)

\* The step ran `<pm> changeset --empty`, which exited zero
ScaffoldExitedZero ==
    /\ pc = "changeset"
    /\ Len(invoked') = Len(invoked) + 1
    /\ invoked'[Len(invoked')].out = "ok"

\* The scaffold command left no new file: the fresh name is still absent
NothingCreated ==
    \A e \in fs'.changeset.entries : e.name # scaffold_name

\* C11: whenever the scaffold command exits zero without creating a new file,
\* create_and_edit_changeset returns no path (the run ends with status 1) and
\* leaves every file of .changeset as it was, whatever the directory held
\* before, older .md files included.
C11_NoCreationFailsAndOverwritesNothing ==
    [][(ScaffoldExitedZero /\ NothingCreated) =>
          /\ changeset_path' = changeset_path
          /\ pc' = "exit"
          /\ exit_code' = 1
          /\ fs'.changeset = fs.changeset]_vars

====
